---- MODULE Spec2Model ----
(***************************************************************************)
(* Scoped environment-variable overrides of yugabyte_db_thirdparty:        *)
(* dict_set_or_del and the EnvVarContext context manager                   *)
(* (python/yugabyte_db_thirdparty/env_helpers.py), driven by `with`        *)
(* statements as in the class's doctests.                                  *)
(*                                                                         *)
(* os.environ is a function from the names that are present to their str   *)
(* value.  The other dicts (the caller's mapping, self.env_vars,           *)
(* self.saved_env_vars, **kwargs) are insertion-ordered item sequences     *)
(* <<key, value>> with unique keys, iterated front to back as .items().    *)
(***************************************************************************)
EXTENDS Naturals, Sequences, FiniteSets

\* ------------------------------------------------------------- bounds
MaxDepth == 2       \* with-blocks nested at one time

\* ------------------------------------------------------------- domains
Names == {"V", "W"}
\* str values the environment store accepts ("" is a value, not absence)
Strs == {"", "a"}
\* a str the environment store rejects: it holds an embedded null byte
NulStr == "a\\0b"
\* Python's None: the absence marker, no str
None == "<None>"
\* EnvVarContext objects of the run
Instances == {"outer", "inner"}

OverrideValues == Strs \cup {None, NulStr}

VARIABLES
    environ,          \* os.environ
    caller_mapping,   \* per instance: the mapping object the caller passed
    kwargs_env_vars,  \* per instance: the keyword arguments passed
    arg_env_vars,     \* per instance: the caller's mapping as it was when passed
    ctx_dict,         \* per instance: the dict object __init__ creates
    env_vars,         \* per instance: the object self.env_vars references
    saved_env_vars,   \* per instance: self.saved_env_vars
    pre_enter,        \* per instance: its names in os.environ just before its latest __enter__ that returned
    stack,            \* the active with-blocks, innermost last
    last              \* the operation that ran last

vars == <<environ, caller_mapping, kwargs_env_vars, arg_env_vars, ctx_dict,
          env_vars, saved_env_vars, pre_enter, stack, last>>

\* ------------------------------------------------------------- dicts
Keys(d) == {d[i][1] : i \in DOMAIN d}

\* d.get(k)
Lookup(d, k) ==
    IF k \in Keys(d) THEN d[CHOOSE i \in DOMAIN d : d[i][1] = k][2] ELSE None

\* d[k] = v on an insertion-ordered dict: a present key keeps its place
DictSetItem(d, k, v) ==
    IF k \in Keys(d)
    THEN [i \in DOMAIN d |-> IF d[i][1] = k THEN <<k, v>> ELSE d[i]]
    ELSE Append(d, <<k, v>>)

RECURSIVE DictUpdate(_, _)
\* d.update(other)
DictUpdate(d, other) ==
    IF other = <<>> THEN d
    ELSE DictUpdate(DictSetItem(d, other[1][1], other[1][2]), Tail(other))

\* os.environ.get(k)
EnvironGet(env, k) == IF k \in DOMAIN env THEN env[k] ELSE None

\* os.environ[k] = v raises (and changes nothing) for a value the store rejects
StoreRejects(k, v) == v = NulStr

\* d[k] = v also for None: a None override is left in place of a removal
dict_set_no_del(d, k, v) ==
    IF v = None THEN d
    ELSE [x \in DOMAIN d \cup {k} |-> IF x = k THEN v ELSE d[x]]

\* `if not v` in place of `if v is None`: the empty string removes too
dict_set_or_del_falsy(d, k, v) ==
    IF v = None \/ v = ""
    THEN IF k \in DOMAIN d THEN [x \in DOMAIN d \ {k} |-> d[x]] ELSE d
    ELSE [x \in DOMAIN d \cup {k} |-> IF x = k THEN v ELSE d[x]]

\* lines 64-73
dict_set_or_del(d, k, v) ==
    IF v = None
    THEN IF k \in DOMAIN d THEN [x \in DOMAIN d \ {k} |-> d[x]] ELSE d
    ELSE [x \in DOMAIN d \cup {k} |-> IF x = k THEN v ELSE d[x]]

\* a dict of no item or of one
SmallDicts(values) == {<<>>} \cup {<< <<k, v>> >> : k \in Names, v \in values}

\* the mapping argument and the keyword arguments of a constructor call
Mappings == SmallDicts(OverrideValues)
Kwargs == SmallDicts(OverrideValues)

Environs(strs) == UNION {[S -> strs] : S \in SUBSET Names}

\* ------------------------------------------------------------- EnvVarContext
\* the mapping's values win over the keyword arguments
merge_kwargs_reversed(d, kw) == DictUpdate(kw, d)

\* line 107: self.env_vars.update(kwargs_env_vars)
merge_kwargs(d, kw) == DictUpdate(d, kw)

\* self.env_vars = env_vars: the caller's object itself, no copy
copy_env_vars_alias(m) == [ref |-> "caller_mapping", obj |-> <<>>]

\* line 106: self.env_vars = dict(copy.deepcopy(env_vars)): a new dict
\* object holding the mapping's items
copy_env_vars(m) == [ref |-> "ctx_dict", obj |-> m]

\* saved_env_vars as one dict of the class, shared by all instances
saved_owner_class(c) == "outer"

\* line 110: self.saved_env_vars = {} makes the dict an attribute of the instance
saved_owner(c) == c

\* the object self.env_vars references
Deref(c) == IF env_vars[c] = "caller_mapping" THEN caller_mapping[c] ELSE ctx_dict[c]

RECURSIVE enter_loop(_, _, _)
\* lines 111-113: the loop of __enter__ over self.env_vars.items()
enter_loop(items, env, saved) ==
    IF items = <<>> THEN [environ |-> env, saved |-> saved, raised |-> FALSE]
    ELSE LET k == items[1][1]
             v == items[1][2]
             saved1 == DictSetItem(saved, k, EnvironGet(env, k))
         IN IF v # None /\ StoreRejects(k, v)
            THEN [environ |-> env, saved |-> saved1, raised |-> TRUE]
            ELSE enter_loop(Tail(items), dict_set_or_del(env, k, v), saved1)

\* a fix-up that keeps the capture of an earlier __enter__ when there is one
enter_keep_first(items, env, old_saved) ==
    LET r == enter_loop(items, env, <<>>)
    IN IF old_saved = <<>> THEN r ELSE [r EXCEPT !.saved = old_saved]

\* an __enter__ that undoes its assignments when the store raises
enter_rollback(items, env, old_saved) ==
    LET r == enter_loop(items, env, <<>>)
    IN IF r.raised THEN [r EXCEPT !.environ = env] ELSE r

\* lines 109-113: __enter__; line 110 discards the saved state of an earlier call
enter(items, env, old_saved) == enter_loop(items, env, <<>>)

RECURSIVE exit_loop(_, _)
exit_loop(items, env) ==
    IF items = <<>> THEN env
    ELSE exit_loop(Tail(items), dict_set_or_del(env, items[1][1], items[1][2]))

\* an __exit__ that restores only when the block did not raise
exit_unless_raised(saved, env, exc_type) ==
    IF exc_type = None THEN exit_loop(saved, env) ELSE env

\* an __exit__ that replaces the whole environment by the saved variables
exit_replace(saved, env, exc_type) == exit_loop(saved, <<>>)

\* lines 115-117: __exit__(exc_type, exc_val, exc_tb); exc_type is None unless
\* the block raised
exit(saved, env, exc_type) == exit_loop(saved, env)

\* ------------------------------------------------------------- state
\* a frame of the stack: the context manager of the with-block, what os.environ
\* held for its names just before its __enter__, whether the same instance was entered again while the
\* block ran ("clean": its overrides were then still what os.environ held,
\* "dirty": they were not), and whether another instance was entered in it
Frame(c, pre, reent, nested) == [ctx |-> c, pre |-> pre, reent |-> reent, nested |-> nested]

NoFrame == Frame("-", <<>>, "no", FALSE)

Op(op, c, kind, frame) == [op |-> op, ctx |-> c, kind |-> kind, frame |-> frame]

InitFrom(environs) ==
    /\ environ \in environs
    /\ caller_mapping = [c \in Instances |-> <<>>]
    /\ kwargs_env_vars = [c \in Instances |-> <<>>]
    /\ arg_env_vars = [c \in Instances |-> <<>>]
    /\ ctx_dict = [c \in Instances |-> <<>>]
    /\ env_vars = [c \in Instances |-> "unset"]
    /\ saved_env_vars = [c \in Instances |-> <<>>]
    /\ pre_enter = [c \in Instances |-> <<>>]
    /\ stack = <<>>
    /\ last = Op("init", "-", "-", NoFrame)

\* a constructor that applies the overrides at once
ConstructEager(c, m, kw) ==
    /\ env_vars[c] = "unset"
    /\ env_vars' = [env_vars EXCEPT ![c] = "ctx_dict"]
    /\ ctx_dict' = [ctx_dict EXCEPT ![c] = DictUpdate(m, kw)]
    /\ caller_mapping' = [caller_mapping EXCEPT ![c] = m]
    /\ environ' = enter_loop(DictUpdate(m, kw), environ, <<>>).environ
    /\ arg_env_vars' = [arg_env_vars EXCEPT ![c] = m]
    /\ kwargs_env_vars' = [kwargs_env_vars EXCEPT ![c] = kw]
    /\ last' = Op("Construct", c, "-", NoFrame)
    /\ UNCHANGED <<saved_env_vars, pre_enter, stack>>

\* lines 85-107: EnvVarContext(m, **kw)
Construct(c, m, kw) ==
    /\ env_vars[c] = "unset"
    /\ LET cp == copy_env_vars(m)
       IN /\ env_vars' = [env_vars EXCEPT ![c] = cp.ref]
          /\ caller_mapping' = [caller_mapping EXCEPT ![c] =
                IF cp.ref = "caller_mapping" THEN merge_kwargs(m, kw) ELSE m]
          /\ ctx_dict' = [ctx_dict EXCEPT ![c] =
                IF cp.ref = "ctx_dict" THEN merge_kwargs(cp.obj, kw) ELSE cp.obj]
    /\ arg_env_vars' = [arg_env_vars EXCEPT ![c] = m]
    /\ kwargs_env_vars' = [kwargs_env_vars EXCEPT ![c] = kw]
    /\ last' = Op("Construct", c, "-", NoFrame)
    /\ UNCHANGED <<environ, saved_env_vars, pre_enter, stack>>

\* the caller changes its own mapping object after the constructor call
CallerMutates(c, m2) ==
    /\ env_vars[c] # "unset"
    /\ m2 # caller_mapping[c]
    /\ caller_mapping' = [caller_mapping EXCEPT ![c] = m2]
    /\ last' = Op("CallerMutates", c, "-", NoFrame)
    /\ UNCHANGED <<environ, kwargs_env_vars, arg_env_vars, ctx_dict, env_vars,
                   saved_env_vars, pre_enter, stack>>

\* the overrides of c are what os.environ holds for their names
Intact(c, env) == \A i \in DOMAIN Deref(c) :
    EnvironGet(env, Deref(c)[i][1]) = Deref(c)[i][2]

\* what os.environ holds for the names c overrides
Snapshot(c, env) == [k \in DOMAIN env \cap Keys(Deref(c)) |-> env[k]]

\* `with c:` whose __enter__ returns: the block starts
Enter(c) ==
    /\ env_vars[c] # "unset"
    /\ Len(stack) < MaxDepth
    /\ LET r == enter(Deref(c), environ, saved_env_vars[saved_owner(c)])
       IN /\ ~r.raised
          /\ environ' = r.environ
          /\ saved_env_vars' = [saved_env_vars EXCEPT ![saved_owner(c)] = r.saved]
    /\ pre_enter' = [pre_enter EXCEPT ![c] = Snapshot(c, environ)]
    /\ stack' = Append(
            [i \in DOMAIN stack |->
                IF stack[i].ctx = c
                THEN [stack[i] EXCEPT !.reent =
                        IF Intact(c, environ) THEN "clean" ELSE "dirty"]
                ELSE [stack[i] EXCEPT !.nested = TRUE]],
            Frame(c, Snapshot(c, environ), "no", FALSE))
    /\ last' = Op("Enter", c, "-", NoFrame)
    /\ UNCHANGED <<caller_mapping, kwargs_env_vars, arg_env_vars, ctx_dict, env_vars>>

\* `with c:` whose __enter__ raises: the block never starts, __exit__ is not called
EnterFails(c) ==
    /\ env_vars[c] # "unset"
    /\ Len(stack) < MaxDepth
    /\ LET r == enter(Deref(c), environ, saved_env_vars[saved_owner(c)])
       IN /\ r.raised
          /\ environ' = r.environ
          /\ saved_env_vars' = [saved_env_vars EXCEPT ![saved_owner(c)] = r.saved]
    /\ last' = Op("EnterFails", c, "raise", NoFrame)
    /\ UNCHANGED <<caller_mapping, kwargs_env_vars, arg_env_vars, ctx_dict, env_vars,
                   pre_enter, stack>>

ExitKinds == {"normal", "return", "raise"}

\* the innermost with-block ends, by falling off its end, by a return or by an
\* exception that propagates: __exit__ of its context manager is called once
Exit(kind) ==
    /\ stack # <<>>
    /\ LET f == stack[Len(stack)]
       IN /\ environ' = exit(saved_env_vars[saved_owner(f.ctx)], environ,
                             IF kind = "raise" THEN "Exception" ELSE None)
          /\ last' = Op("Exit", f.ctx, kind, f)
    /\ stack' = SubSeq(stack, 1, Len(stack) - 1)
    /\ UNCHANGED <<caller_mapping, kwargs_env_vars, arg_env_vars, ctx_dict, env_vars,
                   saved_env_vars, pre_enter>>

\* other code of the program assigns or removes a variable (os.environ[k] = v,
\* del os.environ[k]), inside or outside a block
Setenv(k, v) ==
    /\ environ' = dict_set_or_del(environ, k, v)
    /\ environ' # environ
    /\ last' = Op("Setenv", "-", "-", NoFrame)
    /\ UNCHANGED <<caller_mapping, kwargs_env_vars, arg_env_vars, ctx_dict, env_vars,
                   saved_env_vars, pre_enter, stack>>

Init == InitFrom(Environs(Strs))

\* one EnvVarContext, constructed from a mapping and keyword arguments
Next ==
    \/ \E m \in Mappings, kw \in Kwargs : Construct("outer", m, kw)
    \/ Enter("outer")
    \/ EnterFails("outer")
    \/ \E kind \in ExitKinds : Exit(kind)
    \/ \E k \in Names, v \in Strs \cup {None} : Setenv(k, v)

Spec == Init /\ [][Next]_vars

\* one EnvVarContext whose caller goes on changing the mapping it passed
NextCaller ==
    \/ \E m \in Mappings, kw \in Kwargs : Construct("outer", m, kw)
    \/ \E m2 \in Mappings : CallerMutates("outer", m2)
    \/ Enter("outer")
    \/ EnterFails("outer")
    \/ \E kind \in ExitKinds : Exit(kind)

SpecCaller == Init /\ [][NextCaller]_vars

\* two EnvVarContext objects, each constructed from a mapping, in nested blocks
NestedStrs == {"a", "b"}

NestedMappings == SmallDicts(NestedStrs \cup {None})

InitNested == InitFrom(Environs(NestedStrs))

NextNested ==
    \/ \E c \in Instances, m \in NestedMappings : Construct(c, m, <<>>)
    \/ \E c \in Instances : Enter(c)
    \/ \E kind \in ExitKinds : Exit(kind)
    \/ \E k \in Names : Setenv(k, None)

SpecNested == InitNested /\ [][NextNested]_vars

\* ------------------------------------------------------------- properties
\* every name c overrides has in os.environ the value, or the absence, it has in pre
Restored(c, pre) ==
    \A k \in Keys(Deref(c)) : EnvironGet(environ, k) = EnvironGet(pre, k)

\* C1: after the __exit__ of an instance, every name of its override set has the
\* value (or absence) it had just before the latest __enter__ of that instance,
\* which for a block that did not enter the same instance again is the block's
\* own __enter__; whatever was assigned or removed in between.
C1_ExitRestores ==
    last.op = "Exit" =>
        /\ Restored(last.ctx, pre_enter[last.ctx])
        /\ (last.frame.reent = "no" => Restored(last.ctx, last.frame.pre))

\* a name absent before __enter__ and overridden with a str is absent again, and
\* another name is back at a str that is not its override
C1_Witness ==
    /\ last.op = "Exit"
    /\ last.frame.reent = "no"
    /\ \E k \in Keys(Deref(last.ctx)) :
            /\ Lookup(Deref(last.ctx), k) \in Strs
            /\ k \notin DOMAIN environ
    /\ \E k \in Keys(Deref(last.ctx)) :
            /\ k \in DOMAIN environ
            /\ Lookup(Deref(last.ctx), k) # environ[k]

\* C3: however a with-block ends (falling off its end, a return, an exception
\* that propagates), that step removes exactly the block's frame, runs the
\* __exit__ of its context manager and leaves its names at the values they had
\* before the latest __enter__ of that instance.
C3_ExitOnEveryPath ==
    [][\A kind \in ExitKinds :
            (last'.op = "Exit" /\ last'.kind = kind) =>
                /\ stack = Append(stack', last'.frame)
                /\ last'.ctx = last'.frame.ctx
                /\ \A k \in Keys(Deref(last'.ctx)) :
                        EnvironGet(environ', k) = EnvironGet(pre_enter[last'.ctx], k)]_vars

\* a block that raised, after which a name is back at a value that is not its override
C3_Witness ==
    /\ last.op = "Exit"
    /\ last.kind = "raise"
    /\ \E k \in Keys(Deref(last.ctx)) :
            EnvironGet(environ, k) # Lookup(Deref(last.ctx), k)

\* C4: __enter__ (returning or raising) and __exit__ leave every variable whose
\* name is no key of the override set as it was: not added, removed or changed.
C4_NonInterference ==
    [][last'.op \in {"Enter", "EnterFails", "Exit"} =>
            \A k \in Names \ Keys(Deref(last'.ctx)) :
                /\ (k \in DOMAIN environ') = (k \in DOMAIN environ)
                /\ EnvironGet(environ', k) = EnvironGet(environ, k)]_vars

\* an __exit__ that changed an overridden name next to a name it does not override
C4_Witness ==
    /\ last.op = "Exit"
    /\ Keys(Deref(last.ctx)) # {}
    /\ \E k \in Names \ Keys(Deref(last.ctx)) : k \in DOMAIN environ
    /\ ~Intact(last.ctx, environ)

\* C5: just after an __enter__ that returned, a name overridden with None is
\* absent, a name overridden with a str (the empty one too) has that str, and
\* saved_env_vars has exactly the names of the override set, each with the
\* value, or None for absence, it had just before.
C5_AfterEnter ==
    last.op = "Enter" =>
        LET c == last.ctx
            top == stack[Len(stack)]
        IN /\ \A i \in DOMAIN Deref(c) :
                LET k == Deref(c)[i][1]
                    v == Deref(c)[i][2]
                IN IF v = None THEN k \notin DOMAIN environ
                   ELSE k \in DOMAIN environ /\ environ[k] = v
           /\ top.ctx = c
           /\ Keys(saved_env_vars[c]) = Keys(Deref(c))
           /\ Len(saved_env_vars[c]) = Len(Deref(c))
           /\ \A k \in Keys(Deref(c)) :
                Lookup(saved_env_vars[c], k) =
                    IF k \in DOMAIN top.pre THEN top.pre[k] ELSE None

\* None for a name that was absent already, the empty string for a name that
\* had another value
C5_Witness ==
    /\ last.op = "Enter"
    /\ \E i, j \in DOMAIN Deref(last.ctx) :
            /\ Deref(last.ctx)[i][2] = None
            /\ Lookup(saved_env_vars[last.ctx], Deref(last.ctx)[i][1]) = None
            /\ Deref(last.ctx)[j][2] = ""
            /\ Lookup(saved_env_vars[last.ctx], Deref(last.ctx)[j][1]) = "a"

\* C6: the override set of an instance has, for a name given as a keyword
\* argument, the keyword argument's value, also when the mapping has the name
\* too; for a name of the mapping alone, the mapping's value; and no other
\* name.  After __enter__ os.environ has the keyword argument's value.
C6_KwargsPrecedence ==
    \A c \in Instances : env_vars[c] # "unset" =>
        LET m == arg_env_vars[c]
            kw == kwargs_env_vars[c]
        IN /\ Keys(Deref(c)) = Keys(m) \cup Keys(kw)
           /\ \A k \in Keys(kw) : Lookup(Deref(c), k) = Lookup(kw, k)
           /\ \A k \in Keys(m) \ Keys(kw) : Lookup(Deref(c), k) = Lookup(m, k)
           /\ (last.op = "Enter" /\ last.ctx = c =>
                    \A k \in Keys(kw) : EnvironGet(environ, k) = Lookup(kw, k))

\* the mapping and the keyword arguments give one name two different strs
C6_Witness ==
    /\ last.op = "Enter"
    /\ \E k \in Keys(arg_env_vars[last.ctx]) \cap Keys(kwargs_env_vars[last.ctx]) :
            /\ Lookup(arg_env_vars[last.ctx], k) = "a"
            /\ Lookup(kwargs_env_vars[last.ctx], k) = ""
            /\ environ[k] = ""

\* C7: the constructor leaves os.environ as it is.
C7_ConstructIsLazy ==
    [][last'.op = "Construct" => environ' = environ]_vars

\* an instance constructed with overrides that os.environ does not hold
C7_Witness ==
    /\ last.op = "Construct"
    /\ Deref(last.ctx) # <<>>
    /\ \A i \in DOMAIN Deref(last.ctx) :
            /\ Deref(last.ctx)[i][2] # NulStr
            /\ EnvironGet(environ, Deref(last.ctx)[i][1]) # Deref(last.ctx)[i][2]

\* the first item of a dict whose value the environment store rejects
FirstRejected(items) ==
    CHOOSE i \in DOMAIN items :
        /\ StoreRejects(items[i][1], items[i][2])
        /\ \A j \in 1..(i - 1) : ~StoreRejects(items[j][1], items[j][2])

\* C9: when the store rejects an assignment of __enter__, the exception leaves
\* __enter__, no block starts and no __exit__ runs, the names before the
\* rejected one keep their overrides, and the rejected name and those after
\* it keep what they had before the call.
C9_EnterFailsPartway ==
    [][last'.op = "EnterFails" =>
            LET items == Deref(last'.ctx)
                r == FirstRejected(items)
            IN /\ last'.kind = "raise"
               /\ stack' = stack
               /\ \A i \in DOMAIN items :
                    IF i < r
                    THEN EnvironGet(environ', items[i][1]) = items[i][2]
                    ELSE EnvironGet(environ', items[i][1]) = EnvironGet(environ, items[i][1])]_vars

\* the second assignment was rejected and the first one stays, in place of the
\* value that was saved for it
C9_Witness ==
    /\ last.op = "EnterFails"
    /\ Len(Deref(last.ctx)) = 2
    /\ StoreRejects(Deref(last.ctx)[2][1], Deref(last.ctx)[2][2])
    /\ EnvironGet(environ, Deref(last.ctx)[1][1]) = Deref(last.ctx)[1][2]
    /\ saved_env_vars[last.ctx][1][2] # Deref(last.ctx)[1][2]

\* C10: an __enter__ that returns leaves in saved_env_vars what os.environ held
\* just before it, and nothing of an earlier call; __exit__ restores that.  A
\* block that did not enter its instance again ends with its names as they
\* were before its own __enter__.  A block during which the same instance was
\* entered again, with the overrides then still in os.environ, ends with its
\* names at the override values, not at what they were before its __enter__.
C10_Reuse ==
    /\ \A c \in Instances :
        (\E i \in DOMAIN stack : stack[i].ctx = c) \/ (last.op = "Exit" /\ last.ctx = c) =>
            /\ Keys(saved_env_vars[c]) = Keys(Deref(c))
            /\ \A k \in Keys(Deref(c)) :
                    Lookup(saved_env_vars[c], k) = EnvironGet(pre_enter[c], k)
    /\ last.op = "Exit" =>
            /\ Restored(last.ctx, pre_enter[last.ctx])
            /\ (last.frame.reent = "no" => Restored(last.ctx, last.frame.pre))
            /\ (last.frame.reent = "clean" => Intact(last.ctx, environ))

\* the outermost block of an instance that was entered again inside it has
\* ended, and a name is at its override where it was absent before the block
C10_Witness ==
    /\ last.op = "Exit"
    /\ stack = <<>>
    /\ last.frame.reent = "clean"
    /\ \E k \in Keys(Deref(last.ctx)) :
            /\ k \notin DOMAIN last.frame.pre
            /\ k \in DOMAIN environ
            /\ environ[k] = Lookup(Deref(last.ctx), k)

\* the instance that is not c
Other(c) == CHOOSE d \in Instances : d # c

\* C2: a block of one instance strictly inside a block of another.  The inner
\* __enter__ saves, for a name both override, what os.environ holds at that
\* time (the outer override, when nothing changed it); the inner __exit__
\* puts exactly that back, so an outer override that was in place is in place
\* again; and the outer __exit__ leaves the outer names as they were before
\* the outer __enter__.
C2_NestedScopes ==
    /\ (last.op = "Enter" /\ Len(stack) >= 2) =>
            LET inner == stack[Len(stack)]
                outer == stack[Len(stack) - 1]
            IN inner.ctx # outer.ctx =>
                \A k \in Keys(Deref(inner.ctx)) \cap Keys(Deref(outer.ctx)) :
                    /\ Lookup(saved_env_vars[inner.ctx], k) = EnvironGet(inner.pre, k)
                    /\ (outer.reent = "no" =>
                            Lookup(saved_env_vars[outer.ctx], k) = EnvironGet(outer.pre, k))
    /\ (last.op = "Exit" /\ stack # <<>> /\ last.frame.reent = "no") =>
            LET outer == stack[Len(stack)]
            IN outer.ctx # last.ctx =>
                \A k \in Keys(Deref(last.ctx)) \cap Keys(Deref(outer.ctx)) :
                    /\ EnvironGet(environ, k) = EnvironGet(last.frame.pre, k)
                    /\ (EnvironGet(last.frame.pre, k) = Lookup(Deref(outer.ctx), k) =>
                            EnvironGet(environ, k) = Lookup(Deref(outer.ctx), k))
    /\ (last.op = "Exit" /\ last.frame.nested /\ last.frame.reent = "no") =>
            Restored(last.ctx, last.frame.pre)

\* V was unset, the outer block set it to "a", the inner block to "b", and the
\* inner block has ended: V is "a" again
C2_Witness ==
    /\ last.op = "Exit"
    /\ Len(stack) = 1
    /\ stack[1].ctx = Other(last.ctx)
    /\ stack[1].nested
    /\ "V" \in Keys(Deref(last.ctx)) \cap Keys(Deref(stack[1].ctx))
    /\ "V" \notin DOMAIN stack[1].pre
    /\ Lookup(Deref(stack[1].ctx), "V") = "a"
    /\ Lookup(Deref(last.ctx), "V") = "b"
    /\ last.frame.pre["V"] = "a"
    /\ environ["V"] = "a"

\* C8: the override set is fixed by the constructor call.  The constructor
\* leaves the caller's mapping as it was passed, __enter__ and __exit__ leave it
\* alone, a later change of the mapping by the caller leaves self.env_vars
\* as it is, and __enter__ overrides the names given to the constructor, with
\* the values given to it.
C8_OverridesFixedAtConstruction ==
    [][\A c \in Instances : last'.ctx = c =>
          /\ last'.op = "Construct" => caller_mapping'[c] = arg_env_vars'[c]
          /\ last'.op \in {"Enter", "EnterFails", "Exit"} =>
                caller_mapping' = caller_mapping
          /\ last'.op = "CallerMutates" =>
                /\ Deref(c)' = Deref(c)
                /\ arg_env_vars' = arg_env_vars
          /\ last'.op = "Enter" =>
                LET m == arg_env_vars[c]
                    kw == kwargs_env_vars[c]
                IN /\ Keys(saved_env_vars'[c]) = Keys(m) \cup Keys(kw)
                   /\ \A k \in Keys(kw) : EnvironGet(environ', k) = Lookup(kw, k)
                   /\ \A k \in Keys(m) \ Keys(kw) :
                        EnvironGet(environ', k) = Lookup(m, k)
                   /\ \A k \in Names \ (Keys(m) \cup Keys(kw)) :
                        EnvironGet(environ', k) = EnvironGet(environ, k)]_vars

\* the caller replaced the item of its mapping before __enter__, which applied
\* the item that was passed to the constructor
C8_Witness ==
    /\ last.op = "Enter"
    /\ Len(arg_env_vars[last.ctx]) = 1
    /\ Len(caller_mapping[last.ctx]) = 1
    /\ kwargs_env_vars[last.ctx] = <<>>
    /\ caller_mapping[last.ctx][1][1] # arg_env_vars[last.ctx][1][1]
    /\ caller_mapping[last.ctx][1][2] = None
    /\ arg_env_vars[last.ctx][1][2] = "a"
    /\ environ = [k \in Names |-> "a"]
    /\ saved_env_vars[last.ctx][1][2] = ""
====
